---- MODULE Spec2Model ----
(***************************************************************************)
(* Model of the scan-and-rank engine of momentumchaser-site:               *)
(*   - the incremental per-symbol series cache, src/src/kite_client 2.py   *)
(*   - the scan orchestrator loop and its pure  src/src/scan 2.py          *)
(*     functions compute_score, box_span_fraction                          *)
(*                                                                         *)
(* Dates are day numbers 1..MaxDate.  A bar is [date, close]; close stands *)
(* for the whole OHLCV payload of the bar.  A Series / DataFrame is a      *)
(* sequence of bars in row order.  A symbol is the tuple of its characters.*)
(***************************************************************************)
EXTENDS Integers, Sequences, FiniteSets, TLC

VARIABLES
    files,        \* the cache directory: path -> rows of the CSV file
    upstream,     \* dates for which the provider holds a daily bar
    last,         \* record of the most recent get_hist_daily_cached call
    twice,        \* whether that call repeated the one before it
    pc,           \* scan: position of main()
    universe,     \* scan: the loaded universe list
    by_symbol,    \* scan: symbols present in the instruments master
    idx,          \* scan: index of the universe entry being processed
    debug_rows,   \* scan: diagnostic rows accumulated so far
    ranked_rows,  \* scan: ranked rows accumulated so far
    scored,       \* scan: universe positions compute_score was called for
    stored,       \* scan: universe positions store_ohlc_data was called for
    store_errors, \* scan: universe positions where store_ohlc_data raised
    pauses,       \* scan: universe positions followed by time.sleep
    fetched,      \* scan: per universe position, what the cached fetch did
    out,          \* scan: the written output files
    calc,         \* a call of one of the pure functions: arguments, result
    ops,          \* concurrent get_hist_daily_cached calls: position, locals
    db,           \* the daily_ohlc table and its AUTOINCREMENT counter
    storing       \* store_ohlc_data: the Series at hand, the calls made

cacheVars == <<files, upstream, last, twice>>
scanVars  == <<pc, universe, by_symbol, idx, debug_rows, ranked_rows,
               scored, stored, store_errors, pauses, fetched, out>>
storeVars == <<db, storing>>
vars      == <<files, upstream, last, twice, pc, universe, by_symbol, idx,
               debug_rows, ranked_rows, scored, stored, store_errors, pauses,
               fetched, out, calc, ops, db, storing>>

----------------------------------------------------------------------------
(* Bounds *)

MaxDate  == 3
MaxStart == 2
MaxResp  == 1

Dates == 1..MaxDate

\* start_date arguments tried
Starts == 1..MaxStart

\* the payload of a bar: as first published by the provider, or different
Vals == { "published", "revised" }
Bar   == [date : Dates, close : Vals]

\* three ticker strings; the first two differ only in ' ' versus '_'
Symbols == { <<"A", " ", "B">>, <<"A", "_", "B">>, <<"C">> }

\* the symbol and start_date fetched where the provider's responses are
\* unconstrained
AnySymbols == { <<"C">> }

AnyStart == 1

----------------------------------------------------------------------------
(* Series helpers (pandas operations used by the cache) *)

DatesOf(s) == { s[i].date : i \in DOMAIN s }

BarsOf(s) == { s[i] : i \in DOMAIN s }

\* Series invariant: strictly increasing (hence duplicate-free) dates
StrictlyIncreasing(s) ==
    \A i \in DOMAIN s : \A j \in DOMAIN s : i < j => s[i].date < s[j].date

\* the date of the final row of a frame (used by the properties)
EndsAt(s) == s[Len(s)].date

\* mutation: the first row's date is taken, iloc[0] for iloc[-1]
LastDt_First(s) == s[1].date

\* df["date"].iloc[-1] converted to a calendar date
LastDt(s) == s[Len(s)].date

\* df.sort_values("date").drop_duplicates(subset=["date"]).
\* sort_values uses kind="quicksort", which is not stable: of several rows
\* carrying one date any may come first and so survive drop_duplicates.
\* The result is one of the strictly increasing sequences that hold, for
\* every date present, one of the rows of that date.
RECURSIVE Ascending(_)
Ascending(D) ==
    IF D = {} THEN <<>>
    ELSE LET m == CHOOSE x \in D : \A y \in D : x <= y
         IN  <<m>> \o Ascending(D \ {m})

\* the row sequences that hold, for each date of ds in turn, one row of s
\* carrying that date
RECURSIVE OnePerDate(_, _)
OnePerDate(ds, s) ==
    IF ds = <<>> THEN { <<>> }
    ELSE { << b >> \o rest :
              b \in { x \in BarsOf(s) : x.date = Head(ds) },
              rest \in OnePerDate(Tail(ds), s) }

SortDropDuplicates(s) == OnePerDate(Ascending(DatesOf(s)), s)

----------------------------------------------------------------------------
(* The provider *)

\* a response: rows delivered, or an exception (ok = FALSE)
Rows(s) == [ok |-> TRUE, rows |-> s]

Raise == [ok |-> FALSE, rows |-> <<>>]

\* the bar the provider holds for a date
Quote(d) == [date |-> d, close |-> "published"]

\* kite.historical_data(token, from_date, to_date): the held bars of the
\* window, in date order
Window(from, to) == Ascending({ d \in upstream : from <= d /\ d <= to })

HistoricalData(from, to) ==
    LET ds == Window(from, to) IN [i \in 1..Len(ds) |-> Quote(ds[i])]

\* what a request can produce when the provider honours the window:
\* the rows of the window, or an exception
Honest(from, to) == { Raise, Rows(HistoricalData(from, to)) }

\* every response: an exception, or any list of at most MaxResp bars,
\* whatever the window asked for
BoundedSeq(S, n) == UNION { [1..k -> S] : k \in 0..n }

AnyResponse(from, to) ==
    { Raise } \cup { Rows(s) : s \in BoundedSeq(Bar, MaxResp) }

----------------------------------------------------------------------------
(* kite_client: the cache *)

\* _cache_path: '/' and ' ' become '_'
CachePath(symbol) ==
    [i \in DOMAIN symbol |->
        IF symbol[i] \in {"/", " "} THEN "_" ELSE symbol[i]]

\* _read_cache: empty frame when the file is missing, else the rows sorted
\* and de-duplicated (a set: see SortDropDuplicates)
ReadCache(symbol) ==
    IF CachePath(symbol) \notin DOMAIN files
        THEN { <<>> }
        ELSE SortDropDuplicates(files[CachePath(symbol)])

\* mutation: the frame is written as it is
WriteCache_AsIs(df) == { df }

\* _write_cache: the rows that to_csv can leave in the file
WriteCache(df) ==
    IF df # <<>> THEN SortDropDuplicates(df) ELSE { df }

\* mutation: a cache ending the day before end_date passes for current
CacheIsCurrent_DayEarly(last_dt, end_date) == last_dt >= end_date - 1

\* line 74: the full-cache-hit test
CacheIsCurrent(last_dt, end_date) == last_dt >= end_date

\* mutation: the window restarts on the last cached day, not the day after
FetchStart_NoStep(cached, start_date) ==
    IF cached = <<>> THEN start_date ELSE LastDt(cached)

\* lines 70-76: first day to request
FetchStart(cached, start_date) ==
    IF cached = <<>> THEN start_date ELSE LastDt(cached) + 1

\* mutation: the merge is not guarded, an empty response is written too
HasRows_Always(fresh) == TRUE

\* line 80: the test that guards the merge
HasRows(fresh) == fresh # <<>>

\* mutation: the fresh rows replace the cached ones
Merged_FreshOnly(cached, fresh) == fresh

\* line 82
Merged(cached, fresh) == IF cached = <<>> THEN fresh ELSE cached \o fresh

NoCall ==
    [outcome |-> "none", sym |-> <<>>, start |-> 0, end |-> 0,
     cached |-> <<>>, reqs |-> <<>>, resp |-> Rows(<<>>), ret |-> <<>>,
     quiet |-> FALSE]

\* twice.repeat: the call recorded in last had the arguments of the call
\* before it and the provider gained no bar between the two;
\* twice.prevReqs: the number of requests of the call before it
NotTwice == [repeat |-> FALSE, prevReqs |-> 0]

Repeats(sym, start, end) ==
    [repeat |-> /\ last.outcome # "none"
                /\ <<last.sym, last.start, last.end>> = <<sym, start, end>>
                /\ last.quiet,
     prevReqs |-> Len(last.reqs)]

\* the call that has just been made, as recorded in last:
\*   cached   the frame _read_cache returned,  reqs  the requests issued,
\*   resp     the provider's response,         ret   the frame returned,
\*   quiet    the provider has gained no bar since the call
CallRec(sym, start, end, cached, reqs, resp, outcome, ret) ==
    [outcome |-> outcome, sym |-> sym, start |-> start, end |-> end,
     cached |-> cached, reqs |-> reqs, resp |-> resp, ret |-> ret,
     quiet |-> TRUE]

\* what the provider behind the kite client can do with a request
Answers(kite, from, to) ==
    IF kite = "honest" THEN Honest(from, to) ELSE AnyResponse(from, to)

\* get_hist_daily_cached(kite, token, symbol, start_date, end_date)
GetHistDailyCached(kite, sym, start, end) ==
    \E cached \in ReadCache(sym) :
      IF cached # <<>> /\ CacheIsCurrent(LastDt(cached), end)
      THEN /\ last' = CallRec(sym, start, end, cached, <<>>, Rows(<<>>),
                              "return", cached)
           /\ UNCHANGED files
      ELSE
        LET fetch_start == FetchStart(cached, start) IN
        IF fetch_start <= end
        THEN \E resp \in Answers(kite, fetch_start, end) :
               LET req   == <<[from |-> fetch_start, to |-> end]>>
                   fresh == resp.rows
               IN
               IF ~resp.ok
               THEN /\ last' = CallRec(sym, start, end, cached, req, resp,
                                       "raise", <<>>)
                    /\ UNCHANGED files
               ELSE IF HasRows(fresh)
               THEN LET merged == Merged(cached, fresh) IN
                    /\ \E rows \in WriteCache(merged) :
                         files' = [p \in DOMAIN files \cup {CachePath(sym)} |->
                                     IF p = CachePath(sym) THEN rows
                                     ELSE files[p]]
                    /\ last' = CallRec(sym, start, end, cached, req, resp,
                                       "return", merged)
               ELSE /\ last' = CallRec(sym, start, end, cached, req, resp,
                                       "return", cached)
                    /\ UNCHANGED files
        ELSE /\ last' = CallRec(sym, start, end, cached, <<>>, Rows(<<>>),
                                "return", cached)
             /\ UNCHANGED files

\* a caller invokes the cached fetch; the provider honours the window
Fetch ==
    /\ \E sym \in Symbols, start \in Starts, end \in Dates :
          /\ GetHistDailyCached("honest", sym, start, end)
          /\ twice' = Repeats(sym, start, end)
    /\ UNCHANGED upstream
    /\ UNCHANGED scanVars
    /\ UNCHANGED <<calc, ops>>
    /\ UNCHANGED storeVars

\* a caller invokes the cached fetch; the provider may answer anything
FetchAny ==
    /\ \E sym \in AnySymbols, end \in Dates :
          GetHistDailyCached("any", sym, AnyStart, end)
    /\ UNCHANGED <<upstream, twice>>
    /\ UNCHANGED scanVars
    /\ UNCHANGED <<calc, ops>>
    /\ UNCHANGED storeVars

\* a trading day closes: the provider gains the bar of the next date
NewBar ==
    /\ \E d \in Dates :
          /\ d = Cardinality(upstream) + 1
          /\ upstream' = upstream \cup {d}
    /\ last' = [last EXCEPT !.quiet = FALSE]
    /\ UNCHANGED <<files, twice>>
    /\ UNCHANGED scanVars
    /\ UNCHANGED <<calc, ops>>
    /\ UNCHANGED storeVars


----------------------------------------------------------------------------
(* kite_client: two get_hist_daily_cached calls for one symbol, run by two  *)
(* processes and interleaved at the read, the request and the write         *)

Ops == { 1, 2 }

\* the symbol both fetch, and their start_date
OpSymbol == <<"C">>

OpStart == 1

\* a process outside get_hist_daily_cached
Idle == [pc |-> "idle", end |-> 0, cached |-> <<>>, merged |-> <<>>]

NoOps == [p \in Ops |-> Idle]

\* lines 69-76: the process enters the call and reads the cache file
OpRead(p) ==
    /\ ops[p].pc = "idle"
    /\ \E end \in Dates, cached \in ReadCache(OpSymbol) :
          IF cached # <<>> /\ CacheIsCurrent(LastDt(cached), end)
             THEN ops' = [ops EXCEPT ![p] = Idle]
          ELSE IF FetchStart(cached, OpStart) <= end
             THEN ops' = [ops EXCEPT ![p] =
                            [pc |-> "fetch", end |-> end, cached |-> cached,
                             merged |-> <<>>]]
          ELSE ops' = [ops EXCEPT ![p] = Idle]
    /\ UNCHANGED <<files, upstream, last, twice>>
    /\ UNCHANGED scanVars
    /\ UNCHANGED calc
    /\ UNCHANGED storeVars

\* lines 78-82: the request, and the merge of what it delivered
OpFetch(p) ==
    /\ ops[p].pc = "fetch"
    /\ \E resp \in Honest(FetchStart(ops[p].cached, OpStart), ops[p].end) :
          IF resp.ok /\ HasRows(resp.rows)
             THEN ops' = [ops EXCEPT ![p].pc = "write",
                                     ![p].merged =
                                         Merged(ops[p].cached, resp.rows)]
             ELSE ops' = [ops EXCEPT ![p] = Idle]
    /\ UNCHANGED <<files, upstream, last, twice>>
    /\ UNCHANGED scanVars
    /\ UNCHANGED calc
    /\ UNCHANGED storeVars

\* lines 83-84: _write_cache replaces the file, the call returns
OpWrite(p) ==
    /\ ops[p].pc = "write"
    /\ \E rows \in WriteCache(ops[p].merged) :
          files' = [f \in DOMAIN files \cup {CachePath(OpSymbol)} |->
                      IF f = CachePath(OpSymbol) THEN rows ELSE files[f]]
    /\ ops' = [ops EXCEPT ![p] = Idle]
    /\ UNCHANGED <<upstream, last, twice>>
    /\ UNCHANGED scanVars
    /\ UNCHANGED calc
    /\ UNCHANGED storeVars

----------------------------------------------------------------------------
(* scan: tunables.  Prices in rupees, traded value in crore, ratios and    *)
(* weights in units of 0.0001.                                             *)

PRICE_FLOOR    == 100
MIN_DV_CR      == 5
BOX_CAP        == 1200
ATR_CAP        == 12000
VOL_CAP        == 12000
PIVOT_TOL      == 300
W_BOX          == 3000
W_ATR          == 2500
W_VOL          == 2000
W_PIVOT        == 2500
BONUS_UPTREND  == 500
BONUS_NEARHIGH == 500

\* the minimum number of bars, line 127
MinBars == 220

Min(a, b) == IF a < b THEN a ELSE b

RECURSIVE Gcd(_, _)
Gcd(a, b) == IF b = 0 THEN a ELSE Gcd(b, a % b)

Lcm(a, b) == (a \div Gcd(a, b)) * b

\* the least common multiple of the four caps: a sub-score s in [0, 1] is
\* carried as the integer s * CapLcm, a score as score * CapLcm
CapLcm == Lcm(Lcm(BOX_CAP, ATR_CAP), Lcm(VOL_CAP, PIVOT_TOL))

\* mutation: values above 1 are let through
Clamp01_NoCeiling(x) == IF x < 0 THEN 0 ELSE x

\* clamp01, on x * CapLcm
Clamp01(x) == IF x < 0 THEN 0 ELSE IF x > CapLcm THEN CapLcm ELSE x

\* mutation: the raw metric is neither capped nor clamped
SubScore_Unclamped(metric, cap) == CapLcm - metric * (CapLcm \div cap)

\* mutation: the ratio itself is taken, not its complement
SubScore_Raw(metric, cap) ==
    Clamp01(Min(metric, cap) * (CapLcm \div cap))

\* clamp01(1.0 - min(metric, cap) / cap), times CapLcm
SubScore(metric, cap) ==
    Clamp01(CapLcm - Min(metric, cap) * (CapLcm \div cap))

\* mutation: the second bonus hangs on an elif of the first
ComputeScore_ElifBonus(metrics) ==
    W_BOX * SubScore(metrics.box_span_frac, BOX_CAP)
      + W_ATR * SubScore(metrics.atr_ratio, ATR_CAP)
      + W_VOL * SubScore(metrics.vol_ratio, VOL_CAP)
      + W_PIVOT * SubScore(metrics.dist_to_pivot, PIVOT_TOL)
      + (IF metrics.uptrend THEN BONUS_UPTREND * CapLcm
         ELSE IF metrics.within_20pct_high THEN BONUS_NEARHIGH * CapLcm
         ELSE 0)

\* compute_score, times CapLcm (in units of 0.0001)
ComputeScore(metrics) ==
    W_BOX * SubScore(metrics.box_span_frac, BOX_CAP)
      + W_ATR * SubScore(metrics.atr_ratio, ATR_CAP)
      + W_VOL * SubScore(metrics.vol_ratio, VOL_CAP)
      + W_PIVOT * SubScore(metrics.dist_to_pivot, PIVOT_TOL)
      + (IF metrics.uptrend THEN BONUS_UPTREND * CapLcm ELSE 0)
      + (IF metrics.within_20pct_high THEN BONUS_NEARHIGH * CapLcm ELSE 0)

\* lines 82-90: s_box, s_atr, s_vol, s_pivot, times CapLcm
SubScores(metrics) ==
    [box   |-> SubScore(metrics.box_span_frac, BOX_CAP),
     atr   |-> SubScore(metrics.atr_ratio, ATR_CAP),
     vol   |-> SubScore(metrics.vol_ratio, VOL_CAP),
     pivot |-> SubScore(metrics.dist_to_pivot, PIVOT_TOL)]

\* round(score, 4): the nearest multiple of 0.0001
Round4(x) == (2 * x + CapLcm) \div (2 * CapLcm)

----------------------------------------------------------------------------
(* scan: what one pass of the loop reads *)

MaxUniverse == 2

\* exceptions the cached fetch can raise
Errors == { "TokenException" }

\* The Series a fetch returns is represented by what main() reads of it:
\* its length, its latest close and the 20-bar mean traded value.
BarCounts == { 0, MinBars - 1, MinBars }
Closes    == { 50, 100 }
TradedCr  == { 3, 5 }

\* (of a Series shorter than MinBars the close and the traded value are
\* never read: one close and one traded value stand for all)
Frames ==
    { f \in [n : BarCounts, close : Closes, tv20_cr : TradedCr] :
        f.n < MinBars => (f.close = PRICE_FLOOR /\ f.tv20_cr = MIN_DV_CR) }

\* the Series in memory when _write_cache raises: one the filters would
\* let through
UnwrittenFrames ==
    { f \in Frames :
        f.n >= MinBars /\ f.close >= PRICE_FLOOR /\ f.tv20_cr >= MIN_DV_CR }

\* outcomes of get_hist_daily_cached as main() sees them: the provider's
\* request raised; the Series df was returned; or, kite_client line 83,
\* _write_cache raised on the merged Series df and the exception left
\* get_hist_daily_cached in place of df
FetchOutcomes ==
    [kind : {"raise"}, e : Errors]
      \cup [kind : {"frame"}, df : Frames]
      \cup [kind : {"write_failed"}, e : {"OSError"}, df : UnwrittenFrames]

\* the metrics main() derives from a Series that passed the filters
MetricsSet ==
    { [box_span_frac |-> 500, atr_ratio |-> 9000, vol_ratio |-> 8000,
       dist_to_pivot |-> 100, uptrend |-> TRUE, within_20pct_high |-> TRUE],
      [box_span_frac |-> 400, atr_ratio |-> 12000, vol_ratio |-> 99900,
       dist_to_pivot |-> 300, uptrend |-> FALSE, within_20pct_high |-> FALSE],
      \* two boxes wider than BOX_CAP: equal scores, unequal box_span_pct
      [box_span_frac |-> 1500, atr_ratio |-> 9000, vol_ratio |-> 8000,
       dist_to_pivot |-> 100, uptrend |-> TRUE, within_20pct_high |-> TRUE],
      [box_span_frac |-> 1300, atr_ratio |-> 9000, vol_ratio |-> 8000,
       dist_to_pivot |-> 100, uptrend |-> TRUE, within_20pct_high |-> TRUE] }

NotLookedUp == [kind |-> "no_token"]

----------------------------------------------------------------------------
(* scan: the loop body, lines 114-219 *)

\* a diagnostic row: the reason is the text before the first ':' and, for
\* fetch_failed, the exception text after it
DebugRow(sym, reason) == [symbol |-> sym, reason |-> reason]

ReasonKind(row) == row.reason[1]

\* mutation: the missing instrument is skipped without a diagnostic row
NotFoundRows_Silent(sym) == <<>>

\* line 118
NotFoundRows(sym) == << DebugRow(sym, <<"not_found_in_instruments">>) >>

\* mutation: the failure is reported as missing history
FetchFailedRows_AsShort(sym, e) ==
    << DebugRow(sym, <<"insufficient_history">>) >>

\* line 124: reason f"fetch_failed:{e}"
FetchFailedRows(sym, e) == << DebugRow(sym, <<"fetch_failed", e>>) >>

\* mutation: one bar fewer is accepted
TooShort_OffByOne(df) == df.n < MinBars - 1

\* line 127
TooShort(df) == df.n < MinBars

\* mutation: the comparison is the wrong way round
BelowPriceFloor_Reversed(df) == df.close > PRICE_FLOOR

\* line 143
BelowPriceFloor(df) == df.close < PRICE_FLOOR

\* line 150
BelowTradedValue(df) == df.tv20_cr < MIN_DV_CR

\* lines 186-200: the ranked row (score and box_span_pct of it)
RankedRow(sym, metrics) ==
    [symbol |-> sym,
     score |-> Round4(ComputeScore(metrics)),
     box_span_pct |-> metrics.box_span_frac]

\* what one pass of the loop does with entry number k, symbol sym:
\*   rows    the diagnostic rows it appends,  ranked  the ranked rows,
\*   store   store_ohlc_data was called,      score   compute_score was,
\*   sleep   time.sleep was reached
Pass(rows, ranked, store, score, sleep) ==
    [rows |-> rows, ranked |-> ranked, store |-> store, score |-> score,
     sleep |-> sleep]

\* mutation: the traded-value test is made before the price test
LoopBody_LiquidityFirst(sym, found, fetch, metrics) ==
    IF ~found
        THEN Pass(NotFoundRows(sym), <<>>, FALSE, FALSE, FALSE)
    ELSE IF fetch.kind # "frame"
        THEN Pass(FetchFailedRows(sym, fetch.e), <<>>, FALSE, FALSE, FALSE)
    ELSE IF TooShort(fetch.df)
        THEN Pass(<< DebugRow(sym, <<"insufficient_history">>) >>, <<>>,
                  FALSE, FALSE, FALSE)
    ELSE IF BelowTradedValue(fetch.df)
        THEN Pass(<< DebugRow(sym, <<"below_traded_value">>) >>, <<>>,
                  TRUE, FALSE, FALSE)
    ELSE IF BelowPriceFloor(fetch.df)
        THEN Pass(<< DebugRow(sym, <<"below_price_floor">>) >>, <<>>,
                  TRUE, FALSE, FALSE)
    ELSE Pass(<< DebugRow(sym, <<"ranked">>) >>,
              << RankedRow(sym, metrics) >>, TRUE, TRUE, TRUE)

\* mutation: store_ohlc_data is called after the two floor tests
LoopBody_StoreAfterFilters(sym, found, fetch, metrics) ==
    IF ~found
        THEN Pass(NotFoundRows(sym), <<>>, FALSE, FALSE, FALSE)
    ELSE IF fetch.kind # "frame"
        THEN Pass(FetchFailedRows(sym, fetch.e), <<>>, FALSE, FALSE, FALSE)
    ELSE IF TooShort(fetch.df)
        THEN Pass(<< DebugRow(sym, <<"insufficient_history">>) >>, <<>>,
                  FALSE, FALSE, FALSE)
    ELSE IF BelowPriceFloor(fetch.df)
        THEN Pass(<< DebugRow(sym, <<"below_price_floor">>) >>, <<>>,
                  FALSE, FALSE, FALSE)
    ELSE IF BelowTradedValue(fetch.df)
        THEN Pass(<< DebugRow(sym, <<"below_traded_value">>) >>, <<>>,
                  FALSE, FALSE, FALSE)
    ELSE Pass(<< DebugRow(sym, <<"ranked">>) >>,
              << RankedRow(sym, metrics) >>, TRUE, TRUE, TRUE)

\* lines 116-219: what the pass does, by the first test that rejects
LoopBody(sym, found, fetch, metrics) ==
    IF ~found
        THEN Pass(NotFoundRows(sym), <<>>, FALSE, FALSE, FALSE)
    ELSE IF fetch.kind # "frame"
        THEN Pass(FetchFailedRows(sym, fetch.e), <<>>, FALSE, FALSE, FALSE)
    ELSE IF TooShort(fetch.df)
        THEN Pass(<< DebugRow(sym, <<"insufficient_history">>) >>, <<>>,
                  FALSE, FALSE, FALSE)
    ELSE IF BelowPriceFloor(fetch.df)
        THEN Pass(<< DebugRow(sym, <<"below_price_floor">>) >>, <<>>,
                  TRUE, FALSE, FALSE)
    ELSE IF BelowTradedValue(fetch.df)
        THEN Pass(<< DebugRow(sym, <<"below_traded_value">>) >>, <<>>,
                  TRUE, FALSE, FALSE)
    ELSE Pass(<< DebugRow(sym, <<"ranked">>) >>,
              << RankedRow(sym, metrics) >>, TRUE, TRUE, TRUE)

\* one pass of the for loop: the next universe entry is processed
ScanSymbol ==
    /\ pc = "loop"
    /\ idx < Len(universe)
    /\ LET k     == idx + 1
           sym   == universe[k]
           found == sym \in by_symbol
       IN  \E fetch \in FetchOutcomes, metrics \in MetricsSet,
              store_ok \in BOOLEAN :
             LET pass == LoopBody(sym, found, fetch, metrics) IN
             /\ debug_rows' = debug_rows \o pass.rows
             /\ ranked_rows' = ranked_rows \o pass.ranked
             /\ stored' = IF pass.store THEN stored \cup {k} ELSE stored
             \* lines 132-137: an exception of store_ohlc_data is logged
             /\ store_errors' = IF pass.store /\ ~store_ok
                                    THEN store_errors \cup {k}
                                    ELSE store_errors
             /\ scored' = IF pass.score THEN scored \cup {k} ELSE scored
             /\ pauses' = IF pass.sleep THEN pauses \cup {k} ELSE pauses
             /\ fetched' = Append(fetched,
                                  IF found THEN fetch ELSE NotLookedUp)
             /\ idx' = k
    /\ UNCHANGED <<pc, universe, by_symbol, out>>
    /\ UNCHANGED cacheVars
    /\ UNCHANGED <<calc, ops>>
    /\ UNCHANGED storeVars

\* mutation: the tie-break column is left out of the sort
Before_ScoreOnly(a, b) == a.score > b.score

\* a comes before b under sort_values(["score", "box_span_pct"],
\* ascending=[False, True])
Before(a, b) ==
    \/ a.score > b.score
    \/ a.score = b.score /\ a.box_span_pct < b.box_span_pct

\* insertion into a sorted list after the rows that do not come later
RECURSIVE Insert(_, _)
Insert(row, sorted) ==
    IF sorted = <<>> THEN << row >>
    ELSE IF Before(row, Head(sorted)) THEN << row >> \o sorted
    ELSE << Head(sorted) >> \o Insert(row, Tail(sorted))

RECURSIVE SortValues(_)
SortValues(rows) ==
    IF rows = <<>> THEN <<>>
    ELSE Insert(rows[Len(rows)], SortValues(SubSeq(rows, 1, Len(rows) - 1)))

\* lines 221-232: after the loop the two CSV files are written.  A frame
\* built from no rows has no columns and sort_values raises KeyError before
\* either file is written.
WriteOutputs ==
    /\ pc = "loop"
    /\ idx = Len(universe)
    /\ IF ranked_rows = <<>>
          THEN /\ pc' = "crashed"
               /\ UNCHANGED out
          ELSE /\ pc' = "done"
               /\ out' = [ranked_csv |-> SortValues(ranked_rows),
                          debug_csv  |-> debug_rows]
    /\ UNCHANGED <<universe, by_symbol, idx, debug_rows, ranked_rows,
                   scored, stored, store_errors, pauses, fetched>>
    /\ UNCHANGED cacheVars
    /\ UNCHANGED <<calc, ops>>
    /\ UNCHANGED storeVars

----------------------------------------------------------------------------
(* scan: the pure functions, evaluated on their own *)

MaxBars  == 2
MaxPrice == 2
MaxStores == 2

\* raw metric values tried: below zero, zero, inside the cap, at the cap,
\* above the cap, and the sentinel 9.99
BoxFracs  == { -100, 0, 400, 1200, 1500, 99900 }
AtrRatios == { 0, 9000, 12000, 99900 }
VolRatios == { 0, 8000, 99900 }
PivotDist == { 0, 100, 300 }

Metrics ==
    [box_span_frac : BoxFracs, atr_ratio : AtrRatios, vol_ratio : VolRatios,
     dist_to_pivot : PivotDist, uptrend : BOOLEAN,
     within_20pct_high : BOOLEAN]

\* the records that differ from m in box_span_frac only, or in the two
\* flags only
Variants(m) ==
    { [m EXCEPT !.box_span_frac = x] : x \in BoxFracs }
      \cup { [m EXCEPT !.uptrend = u, !.within_20pct_high = w] :
                u \in BOOLEAN, w \in BOOLEAN }

\* no sub-score computed yet
NoSubScores == [box |-> 0, atr |-> 0, vol |-> 0, pivot |-> 0]

\* two calls of compute_score to be made
ScoreArgs ==
    UNION { { [fn |-> "compute_score", done |-> FALSE, a |-> m, b |-> v,
               ra |-> 0, rb |-> 0, sub |-> NoSubScores] :
                 v \in Variants(m) } : m \in Metrics }

\* compute_score(a) and compute_score(b); sub: the four sub-scores of a
ScoreCall ==
    /\ calc.fn = "compute_score" /\ ~calc.done
    /\ calc' = [calc EXCEPT !.done = TRUE,
                            !.ra = ComputeScore(calc.a),
                            !.rb = ComputeScore(calc.b),
                            !.sub = SubScores(calc.a)]
    /\ UNCHANGED cacheVars
    /\ UNCHANGED scanVars
    /\ UNCHANGED ops
    /\ UNCHANGED storeVars

\* a bar of the frame, as box_span_fraction reads it
HighLow == { b \in [high : 1..MaxPrice, low : 1..MaxPrice] : b.low <= b.high }

\* a float result: a number in units of 0.0001, or what numpy's division
\* by zero gives (inf for a positive numerator, nan for zero)
Num(v) == [kind |-> "num", v |-> v]

DivByZero(n) == IF n = 0 THEN [kind |-> "nan", v |-> 0]
                         ELSE [kind |-> "inf", v |-> 0]

\* df.tail(look)
TailRows(df, look) ==
    IF look >= Len(df) THEN df ELSE SubSeq(df, Len(df) - look + 1, Len(df))

MaxOf(S) == CHOOSE x \in S : \A y \in S : y <= x

MinOf(S) == CHOOSE x \in S : \A y \in S : x <= y

\* mutation: the span is taken over the whole frame, tail(look) forgotten
BoxSpanFraction_WholeFrame(df, look, last_close) ==
    IF df = <<>> THEN Num(99900)
    ELSE LET span == MaxOf({ df[i].high : i \in DOMAIN df })
                       - MinOf({ df[i].low : i \in DOMAIN df })
         IN  IF last_close = 0 THEN DivByZero(span)
             ELSE Num((span * 10000) \div last_close)

\* box_span_fraction(df, look, last_close), lines 74-78
BoxSpanFraction(df, look, last_close) ==
    LET box == TailRows(df, look) IN
    IF box = <<>> THEN Num(99900)
    ELSE LET span == MaxOf({ box[i].high : i \in DOMAIN box })
                       - MinOf({ box[i].low : i \in DOMAIN box })
         IN  IF last_close = 0 THEN DivByZero(span)
             ELSE Num((span * 10000) \div last_close)

\* a call of box_span_fraction to be made
BoxSpanArgs ==
    [fn : {"box_span_fraction"}, done : {FALSE},
     df : BoundedSeq(HighLow, MaxBars), look : 0..MaxBars,
     last_close : 0..MaxPrice, r : {Num(0)}]

BoxSpanCall ==
    /\ calc.fn = "box_span_fraction" /\ ~calc.done
    /\ calc' = [calc EXCEPT !.done = TRUE,
                            !.r = BoxSpanFraction(calc.df, calc.look,
                                                  calc.last_close)]
    /\ UNCHANGED cacheVars
    /\ UNCHANGED scanVars
    /\ UNCHANGED ops
    /\ UNCHANGED storeVars

----------------------------------------------------------------------------
(* screener: is_uptrend and within_52w_high, on Series given by their      *)
(* length and the prices of a few bars, all other bars at one base price   *)

Prices == 1..MaxPrice

\* a bool result, or the IndexError of .iat on an empty Series
Bool(v) == [kind |-> "bool", v |-> v]

IndexError == [kind |-> "raise", v |-> FALSE]

\* the sum of the n values of s ending at position i: s.rolling(n).sum(),
\* undefined (NaN) where fewer than n values are there
RECURSIVE SumTo(_, _, _)
SumTo(s, from, to) ==
    IF from > to THEN 0
    ELSE IF from = to THEN s[from]
    ELSE LET mid == (from + to) \div 2
         IN  SumTo(s, from, mid) + SumTo(s, mid + 1, to)

Rolling(s, n, i) ==
    IF i < n \/ i > Len(s) THEN [nan |-> TRUE, sum |-> 0]
    ELSE [nan |-> FALSE, sum |-> SumTo(s, i - n + 1, i)]

\* a > b on two rolling means (or a value, n = 1), given by their sums and
\* window lengths; a comparison with NaN is false
MeanGreater(a, na, b, nb) ==
    ~a.nan /\ ~b.nan /\ a.sum * nb > b.sum * na

\* the position .iat[-k] reads, k >= 1: the last row is .iat[-1]
IatNeg(s, k) == Len(s) - k + 1

\* is_uptrend(df) on the close column, screener.py lines 12-15
IsUptrend(close) ==
    IF close = <<>> THEN IndexError
    ELSE LET latest == Len(close)
             c      == Rolling(close, 1, latest)
             s50    == Rolling(close, 50, latest)
             s200   == Rolling(close, 200, latest)
         IN  Bool(/\ MeanGreater(c, 1, s50, 50)
                  /\ MeanGreater(s50, 50, s200, 200)
                  /\ MeanGreater(s50, 50,
                                 Rolling(close, 50, IatNeg(close, 5)), 50))

\* lengths of the Series tried: empty, one bar, too short for the 200-bar
\* mean, long enough
UptrendLens == { 0, 1, 60, 205 }

\* the close column: base everywhere but on the bars 54, 50, 5 and 4 bars
\* before the latest one and on the latest one
CloseColumn(a) ==
    [i \in 1..a.n |->
        LET back == a.n - i IN
        IF back = 0 THEN a.p0
        ELSE IF back = 4 THEN a.p4
        ELSE IF back = 5 THEN a.p5
        ELSE IF back = 50 THEN a.p50
        ELSE IF back = 54 THEN a.p54
        ELSE a.base]

UptrendArgs ==
    [fn : {"is_uptrend"}, done : {FALSE}, n : UptrendLens, base : Prices,
     p54 : Prices, p50 : Prices, p5 : Prices, p4 : Prices, p0 : Prices,
     r : {Bool(FALSE)}]

UptrendCall ==
    /\ calc.fn = "is_uptrend" /\ ~calc.done
    /\ calc' = [calc EXCEPT !.done = TRUE,
                            !.r = IsUptrend(CloseColumn(calc))]
    /\ UNCHANGED cacheVars
    /\ UNCHANGED scanVars
    /\ UNCHANGED ops
    /\ UNCHANGED storeVars

\* s.rolling(n).max() at position i, undefined (NaN) where fewer than n
\* values are there
RollingMax(s, n, i) ==
    IF i < n \/ i > Len(s) THEN [nan |-> TRUE, max |-> 0]
    ELSE [nan |-> FALSE, max |-> MaxOf({ s[j] : j \in (i - n + 1)..i })]

\* the max_dd the scan passes, in percent (0.20)
NEAR_HIGH_DD == 20

\* mutation: the rolling high is taken over the bars there are
\* (min_periods = 1), never undefined
Within52wHigh_MinPeriods1(high, close, max_dd) ==
    IF high = <<>> THEN IndexError
    ELSE LET h == MaxOf({ high[j] : j \in DOMAIN TailRows(high, 252) })
             c == close[Len(close)]
         IN  Bool((h - c) * 100 <= max_dd * h)

\* within_52w_high(df, max_dd) on the high and close columns, screener.py
\* lines 17-19; prices are positive, so high_52w is never zero
Within52wHigh(high, close, max_dd) ==
    IF high = <<>> THEN IndexError
    ELSE LET high_52w == RollingMax(high, 252, Len(high))
             c        == close[Len(close)]
         IN  IF high_52w.nan THEN Bool(FALSE)
             ELSE Bool((high_52w.max - c) * 100 <= max_dd * high_52w.max)

\* lengths of the Series tried: empty, one bar, the scan's minimum, one
\* bar short of 252, 252, and one more
NearHighLens == { 0, 1, 220, 251, 252, 253 }

\* the high column: first on the first bar, rest on every other bar
HighColumn(a) == [i \in 1..a.n |-> IF i = 1 THEN a.first ELSE a.rest]

\* the close column: one close on every bar
FlatCloseColumn(a) == [i \in 1..a.n |-> a.close]

\* the metrics of a symbol at the ideal of every ratio, the near-high flag
\* not yet computed
IdealMetrics(uptrend) ==
    [box_span_frac |-> 0, atr_ratio |-> 0, vol_ratio |-> 0,
     dist_to_pivot |-> 0, uptrend |-> uptrend, within_20pct_high |-> FALSE]

NearHighArgs ==
    [fn : {"within_52w_high"}, done : {FALSE}, n : NearHighLens,
     first : Prices, rest : Prices, close : Prices,
     m : { IdealMetrics(u) : u \in BOOLEAN },
     r : {Bool(FALSE)}, score : {0}]

\* near_high = within_52w_high(df, 0.20), then the score of the metrics
\* that carry it (scan lines 156, 182-184); nothing is scored when the
\* call raises
NearHighCall ==
    /\ calc.fn = "within_52w_high" /\ ~calc.done
    /\ LET near_high == Within52wHigh(HighColumn(calc),
                                      FlatCloseColumn(calc), NEAR_HIGH_DD)
           metrics   == [calc.m EXCEPT !.within_20pct_high = near_high.v]
       IN  calc' = IF near_high.kind = "raise"
                   THEN [calc EXCEPT !.done = TRUE, !.r = near_high]
                   ELSE [calc EXCEPT !.done = TRUE, !.r = near_high,
                                     !.m = metrics,
                                     !.score = ComputeScore(metrics)]
    /\ UNCHANGED cacheVars
    /\ UNCHANGED scanVars
    /\ UNCHANGED ops
    /\ UNCHANGED storeVars

----------------------------------------------------------------------------
(* scan: the four ratios of the metrics, lines 158-170, on the values the  *)
(* Series reduces to                                                        *)

BOX_LEN == 12

NaN == [kind |-> "nan", v |-> 0]

\* the latest close of a symbol that came through both filters: a number
\* at or above the price floor (a NaN close gives a NaN traded value, which
\* line 149 turns into 0.0, below the liquidity floor)
CloseValues == { PRICE_FLOOR, 2 * PRICE_FLOOR }

\* the last bars of the Series, the box: highs and lows as a provider may
\* send them, zero included
BoxRow == { b \in [high : {0, PRICE_FLOOR}, low : {0, PRICE_FLOOR}] :
              b.low <= b.high }

Boxes == { <<a>> : a \in BoxRow } \cup { <<a, b>> : a \in BoxRow, b \in BoxRow }

\* atr_now; atr_base, the median of the 60 bars before (NaN when all of
\* them are); v5; the 50-bar mean volume, NaN on fewer than 50 volumes
AtrNows == { 0, 2 }

AtrBases == { NaN, Num(0), Num(2) }

V5s == { 0, 3 }

V50s == { NaN, Num(0), Num(3) }

\* pivot, line 160: the box is never empty here
Pivot(box) == MaxOf({ box[i].high : i \in DOMAIN box })

AbsDiff(a, b) == IF a >= b THEN a - b ELSE b - a

\* abs(pivot - close) / pivot on Python floats, line 161: a zero pivot
\* raises ZeroDivisionError
DistToPivot(pivot, close) ==
    IF pivot = 0 THEN [kind |-> "raise", v |-> 0]
    ELSE Num((AbsDiff(pivot, close) * 10000) \div pivot)

\* (atr_now / atr_base) if atr_base > 0 else 9.99, line 166, and
\* (v5 / v50) if v50 > 0 else 9.99, line 170; NaN > 0 is false
GuardedRatio(num, base) ==
    IF base.kind = "num" /\ base.v > 0 THEN Num((num * 10000) \div base.v)
    ELSE Num(99900)

\* v50, line 169: 0.0 where the rolling mean is NaN
V50(raw) == IF raw.kind = "nan" THEN Num(0) ELSE raw

NoRatios ==
    [raised |-> FALSE, box_span_frac |-> Num(0), dist_to_pivot |-> Num(0),
     atr_ratio |-> Num(0), vol_ratio |-> Num(0)]

\* lines 158-170; an exception at line 161 leaves what follows uncomputed
Ratios(a) ==
    LET box_frac      == BoxSpanFraction(a.box, BOX_LEN, a.close)
        dist_to_pivot == DistToPivot(Pivot(a.box), a.close)
    IN  IF dist_to_pivot.kind = "raise"
        THEN [NoRatios EXCEPT !.raised = TRUE, !.box_span_frac = box_frac]
        ELSE [raised |-> FALSE,
              box_span_frac |-> box_frac,
              dist_to_pivot |-> dist_to_pivot,
              atr_ratio |-> GuardedRatio(a.atr_now, a.atr_base),
              vol_ratio |-> GuardedRatio(a.v5, V50(a.v50))]

RatiosArgs ==
    [fn : {"ratios"}, done : {FALSE}, close : CloseValues, box : Boxes,
     atr_now : AtrNows, atr_base : AtrBases, v5 : V5s, v50 : V50s,
     r : {NoRatios}]

RatiosCall ==
    /\ calc.fn = "ratios" /\ ~calc.done
    /\ calc' = [calc EXCEPT !.done = TRUE, !.r = Ratios(calc)]
    /\ UNCHANGED cacheVars
    /\ UNCHANGED scanVars
    /\ UNCHANGED ops
    /\ UNCHANGED storeVars

----------------------------------------------------------------------------

ScanIdle ==
    /\ pc = "idle"
    /\ universe = <<>>
    /\ by_symbol = {}
    /\ idx = 0
    /\ debug_rows = <<>>
    /\ ranked_rows = <<>>
    /\ scored = {}
    /\ stored = {}
    /\ store_errors = {}
    /\ pauses = {}
    /\ fetched = <<>>
    /\ out = <<>>

\* no pure function is being evaluated
NoCalc == [fn |-> "none"]

(* database: store_ohlc_data on the daily_ohlc table                        *)

StoreSymbols == { "A", "B" }

\* the date of a bar as the provider sends it, a timestamp: a day and a
\* time of day
Stamps == { st \in [day : 1..2, time : 0..1] : st.day = 1 \/ st.time = 0 }

\* the close of a bar: a price, or NaN.  open, high, low and volume are
\* bound to the INSERT the same way and stand under the same NOT NULL
StoreCloses == { NaN, Num(1), Num(2) }

StoreRow == [date : Stamps, close : StoreCloses]

\* the Series a caller may hold: no bar, one bar, two bars in any order
ShortSeries == { <<>> } \cup { <<a>> : a \in StoreRow }

StoreSeries ==
    ShortSeries \cup { <<a, b>> : a \in StoreRow, b \in StoreRow }

\* dt.strftime('%Y-%m-%d'), line 147: the day, the time of day dropped
Strftime(stamp) == stamp.day

\* df.sort_values('date') on the date strings, database.py line 44: two
\* bars of one date stay as they are or change places, depending on the
\* sort alone (swaps), the same way in every call
SortByDate(df, swaps) ==
    IF Len(df) < 2 THEN df
    ELSE IF Strftime(df[1].date) < Strftime(df[2].date) THEN df
    ELSE IF Strftime(df[1].date) > Strftime(df[2].date) THEN <<df[2], df[1]>>
    ELSE IF swaps THEN <<df[2], df[1]>>
    ELSE df

\* the rows of the table but those of one (symbol, date)
WithoutKey(rows, symbol, date) ==
    { r \in rows : ~(r.symbol = symbol /\ r.date = date) }

\* mutation: a plain INSERT into a table with no UNIQUE(symbol, date)
InsertOrReplace_PlainInsert(t, symbol, date, close) ==
    [rows |-> t.rows \cup { [id |-> t.seq + 1, symbol |-> symbol,
                             date |-> date, close |-> close] },
     seq  |-> t.seq + 1]

\* INSERT OR REPLACE INTO daily_ohlc under UNIQUE(symbol, date) and
\* id INTEGER PRIMARY KEY AUTOINCREMENT: the row of the key is deleted, the
\* new row takes the next id
InsertOrReplace(t, symbol, date, close) ==
    [rows |-> WithoutKey(t.rows, symbol, date)
                \cup { [id |-> t.seq + 1, symbol |-> symbol,
                        date |-> date, close |-> close] },
     seq  |-> t.seq + 1]

\* the loop of lines 165-181 from row i on: a NaN is bound as NULL, the
\* NOT NULL column refuses it, the exception is logged and the row skipped
RECURSIVE InsertRows(_, _, _, _)
InsertRows(t, symbol, df, i) ==
    IF i > Len(df) THEN t
    ELSE IF df[i].close.kind = "nan" THEN InsertRows(t, symbol, df, i + 1)
    ELSE InsertRows(InsertOrReplace(t, symbol, Strftime(df[i].date),
                                    df[i].close.v),
                    symbol, df, i + 1)

\* rows_affected
RowsAffected(df) == Cardinality({ i \in DOMAIN df : df[i].close.kind = "num" })

NoStore == [symbol |-> "", df |-> <<>>, effect |-> "none", ret |-> 0,
            repeat |-> FALSE, before |-> {}]

StoreIdle ==
    /\ db = [rows |-> {}, seq |-> 0]
    /\ storing = [frames |-> {}, swaps |-> FALSE, calls |-> 0,
                  last |-> NoStore]

\* what the table holds, the id left out
Stored(rows) ==
    { [symbol |-> r.symbol, date |-> r.date, close |-> r.close] : r \in rows }

\* store_ohlc_data(symbol, df), lines 121-190.  committed is false when
\* the transaction fails and is rolled back
StoreOhlcData(symbol, df, committed) ==
    /\ storing.calls < MaxStores
    /\ LET effect == IF df = <<>> THEN "empty"
                     ELSE IF committed THEN "committed" ELSE "rolled_back"
           t      == IF effect = "committed"
                     THEN InsertRows(db, symbol,
                                     SortByDate(df, storing.swaps), 1)
                     ELSE db
       IN  /\ db' = t
           /\ storing' =
                [storing EXCEPT
                   !.calls = @ + 1,
                   !.last = [symbol |-> symbol, df |-> df,
                             effect |-> effect,
                             ret    |-> IF effect = "committed"
                                        THEN RowsAffected(df) ELSE 0,
                             repeat |-> /\ storing.last.symbol = symbol
                                        /\ storing.last.df = df
                                        /\ storing.last.effect
                                             \in {"empty", "committed"},
                             before |-> Stored(db.rows)]]
    /\ UNCHANGED cacheVars
    /\ UNCHANGED scanVars
    /\ UNCHANGED <<calc, ops>>

StoreCall ==
    \E symbol \in StoreSymbols, df \in storing.frames, committed \in BOOLEAN :
        StoreOhlcData(symbol, df, committed)

\* init_database has run; the callers hold a Series and a second one of
\* one bar at most
InitStore ==
    /\ files = <<>>
    /\ upstream = {}
    /\ last = NoCall
    /\ twice = NotTwice
    /\ ScanIdle
    /\ calc = NoCalc
    /\ ops = NoOps
    /\ db = [rows |-> {}, seq |-> 0]
    /\ storing \in [frames : { {a, b} : a \in StoreSeries, b \in ShortSeries },
                    swaps : BOOLEAN, calls : {0}, last : {NoStore}]

NextStore == StoreCall

SpecStore == InitStore /\ [][NextStore]_vars


Init ==
    /\ files = <<>>
    /\ upstream = {}
    /\ last = NoCall
    /\ twice = NotTwice
    /\ ScanIdle
    /\ calc = NoCalc
    /\ ops = NoOps
    /\ StoreIdle

Next == Fetch \/ NewBar

Spec == Init /\ [][Next]_vars

NextAny == FetchAny

SpecAnyResponse == Init /\ [][NextAny]_vars

\* a scan run: main() after get_kite, instruments_nse_eq and load_universe
InitScan ==
    /\ files = <<>>
    /\ upstream = {}
    /\ last = NoCall
    /\ twice = NotTwice
    /\ pc = "loop"
    /\ universe \in BoundedSeq(Symbols, MaxUniverse)
    /\ by_symbol \in SUBSET Symbols
    /\ idx = 0
    /\ debug_rows = <<>>
    /\ ranked_rows = <<>>
    /\ scored = {}
    /\ stored = {}
    /\ store_errors = {}
    /\ pauses = {}
    /\ fetched = <<>>
    /\ out = <<>>
    /\ calc = NoCalc
    /\ ops = NoOps
    /\ StoreIdle

NextScan == ScanSymbol \/ WriteOutputs

SpecScan == InitScan /\ [][NextScan]_vars

\* the pure functions of the scan, each called once on arguments drawn from
\* the bounded sets
InitCalc ==
    /\ files = <<>>
    /\ upstream = {}
    /\ last = NoCall
    /\ twice = NotTwice
    /\ ScanIdle
    /\ calc \in ScoreArgs \cup BoxSpanArgs \cup UptrendArgs
                 \cup NearHighArgs \cup RatiosArgs
    /\ ops = NoOps
    /\ StoreIdle

NextConcurrent ==
    \/ \E p \in Ops : OpRead(p) \/ OpFetch(p) \/ OpWrite(p)
    \/ NewBar

\* two processes calling get_hist_daily_cached for one symbol, over and over
SpecConcurrent == Init /\ [][NextConcurrent]_vars

NextCalc ==
    ScoreCall \/ BoxSpanCall \/ UptrendCall \/ NearHighCall \/ RatiosCall

SpecCalc == InitCalc /\ [][NextCalc]_vars

----------------------------------------------------------------------------
(* Properties of the cache *)

Called   == last.outcome # "none"
Returned == last.outcome = "return"

\* the persisted Series of a symbol: the rows of its file, none if missing
Entry(sym) ==
    IF CachePath(sym) \in DOMAIN files THEN files[CachePath(sym)] ELSE <<>>

\* the call left the cache entry as _read_cache found it
EntryUntouched ==
    IF last.cached = <<>>
        THEN CachePath(last.sym) \notin DOMAIN files
        ELSE /\ CachePath(last.sym) \in DOMAIN files
             /\ files[CachePath(last.sym)] = last.cached

\* the entry read by the call was current: non-empty, ending at or after
\* end_date
ReadCurrent == last.cached # <<>> /\ EndsAt(last.cached) >= last.end

\* the call was the second of two calls in a row with the same arguments,
\* the provider holding no new bar in between
SecondOfTwo == Called /\ twice.repeat

RequestsOfTwo == twice.prevReqs + Len(last.reqs)

\* C1 as stated: two calls in a row with the same (symbol, startDate,
\* endDate) and no new upstream data issue at most one upstream request
\* between them.
C1_AtMostOneRequest == SecondOfTwo => RequestsOfTwo <= 1

\* C1 amended: of two such calls the second is a full cache hit, and the two
\* issue at most one request, exactly when the first call leaves the entry
\* ending at or after endDate (or there is nothing to ask for: no entry and
\* startDate > endDate); otherwise each of the two calls issues a request.
C1_SecondCallHitsIffCurrent ==
    SecondOfTwo =>
        IF ReadCurrent \/ (last.cached = <<>> /\ last.start > last.end)
            THEN /\ last.reqs = <<>>
                 /\ RequestsOfTwo <= 1
                 /\ Returned /\ last.ret = last.cached
            ELSE RequestsOfTwo = 2

\* the first call fetched and persisted bars up to endDate, the second call
\* was a full cache hit
C1_Witness ==
    /\ SecondOfTwo /\ ReadCurrent
    /\ twice.prevReqs = 1 /\ last.reqs = <<>>

\* C2: a non-empty entry ending at D < endDate leads to exactly one request,
\* for [D + 1, endDate]; an empty entry with startDate <= endDate leads to
\* a request for [startDate, endDate].
C2_RequestedRange ==
    Called =>
        /\ (last.cached # <<>> /\ EndsAt(last.cached) < last.end)
              => last.reqs = <<[from |-> EndsAt(last.cached) + 1,
                                to   |-> last.end]>>
        /\ (last.cached = <<>> /\ last.start <= last.end)
              => last.reqs = <<[from |-> last.start, to |-> last.end]>>

\* an entry ending two days before endDate was extended by one request
C2_Witness ==
    /\ Called /\ last.cached # <<>>
    /\ EndsAt(last.cached) + 2 = last.end
    /\ Len(last.reqs) = 1

\* C3: when the entry is non-empty and ends at or after endDate, the call
\* returns the persisted Series, issues no request and leaves the entry
\* unchanged.
C3_FullHitFrame ==
    (Called /\ ReadCurrent) =>
        /\ Returned
        /\ last.ret = last.cached
        /\ last.reqs = <<>>
        /\ EntryUntouched

\* a full cache hit on an entry of two bars
C3_Witness ==
    /\ Called /\ ReadCurrent /\ Len(last.cached) >= 2
    /\ last.ret = last.cached

\* the request of the call raised / delivered no bars
RequestRaised == Called /\ Len(last.reqs) = 1 /\ ~last.resp.ok

RequestEmpty ==
    Called /\ Len(last.reqs) = 1 /\ last.resp.ok /\ last.resp.rows = <<>>

\* C4 as stated: when the request raises or returns no bars, the call
\* returns the cached Series unmodified and the entry is unchanged.
C4_FailureReturnsCached ==
    (RequestRaised \/ RequestEmpty) =>
        /\ Returned
        /\ last.ret = last.cached
        /\ EntryUntouched

\* C4 amended: when the request returns no bars the call returns the cached
\* Series unmodified and the entry is unchanged; when the request raises,
\* the exception leaves get_hist_daily_cached (no Series is returned) and
\* the entry is unchanged.
C4_EmptyReturnsCachedRaisePropagates ==
    /\ RequestEmpty =>
          /\ Returned
          /\ last.ret = last.cached
          /\ EntryUntouched
    /\ RequestRaised =>
          /\ last.outcome = "raise"
          /\ last.ret = <<>>
          /\ EntryUntouched

\* an empty response on top of a non-empty entry
C4_Witness == RequestEmpty /\ last.cached # <<>> /\ last.ret = last.cached

\* a is an initial segment of b
IsPrefix(a, b) == Len(a) <= Len(b) /\ \A i \in DOMAIN a : b[i] = a[i]

\* every bar of the response lies in the window that was asked for
ResponseInWindow(call) ==
    \A i \in DOMAIN call.resp.rows :
        /\ call.reqs[1].from <= call.resp.rows[i].date
        /\ call.resp.rows[i].date <= call.reqs[1].to

\* C5 as stated: an entry changes only by gaining bars dated strictly after
\* its previous last date; no persisted bar is removed or altered and a
\* non-empty entry never gets shorter or empty.
C5_AppendOnly ==
    [][\A p \in DOMAIN files :
          /\ p \in DOMAIN files'
          /\ IsPrefix(files[p], files'[p])
          /\ \A i \in DOMAIN files'[p] :
                (i > Len(files[p]) /\ files[p] # <<>>)
                    => files'[p][i].date > EndsAt(files[p])]_vars

\* C5 amended: an entry never loses a date, never gets shorter and never
\* becomes empty; when the response holds only bars of the requested window
\* the entry changes only by gaining bars dated strictly after its previous
\* last date and no persisted bar is altered.  (A response with a bar dated
\* on or before the last cached date is merged as well: it can add a bar
\* inside the history or replace the persisted bar of that date.)
C5_NeverLosesDates ==
    [][\A p \in DOMAIN files :
          /\ p \in DOMAIN files'
          /\ DatesOf(files[p]) \subseteq DatesOf(files'[p])
          /\ Len(files[p]) <= Len(files'[p])
          /\ (files[p] # <<>> => files'[p] # <<>>)
          /\ (files'[p] # files[p] /\ ResponseInWindow(last'))
                => /\ IsPrefix(files[p], files'[p])
                   /\ \A i \in DOMAIN files'[p] :
                         (i > Len(files[p]) /\ files[p] # <<>>)
                            => files'[p][i].date > EndsAt(files[p])]_vars

\* a non-empty entry has just been extended by an in-window response
C5_Witness ==
    /\ Returned /\ last.cached # <<>>
    /\ last.resp.rows # <<>> /\ ResponseInWindow(last)
    /\ Entry(last.sym) = last.cached \o last.resp.rows

\* C6: every Series returned has strictly increasing, duplicate-free dates.
C6_ReturnedSeriesOrdered == Returned => StrictlyIncreasing(last.ret)

\* C7: the returned Series holds every bar the provider holds for the
\* symbol with a date in [startDate, endDate].
C7_ReturnedSeriesCovers ==
    (Returned /\ last.quiet) =>
        \A d \in upstream :
            (last.start <= d /\ d <= last.end) => Quote(d) \in BarsOf(last.ret)

----------------------------------------------------------------------------
(* Properties of the scan loop *)

Reasons ==
    { "not_found_in_instruments", "fetch_failed", "insufficient_history",
      "below_price_floor", "below_traded_value", "ranked" }

\* the symbols of the universe entries compute_score was called for, in
\* universe order, up to entry k
RECURSIVE ScoredSymbols(_)
ScoredSymbols(k) ==
    IF k = 0 THEN <<>>
    ELSE ScoredSymbols(k - 1) \o
            (IF k \in scored THEN << universe[k] >> ELSE <<>>)

\* the ranked rows are those of the scored entries
RankedAreScored ==
    /\ idx <= Len(universe)
    /\ Len(ranked_rows) = Len(ScoredSymbols(idx))
    /\ \A i \in DOMAIN ranked_rows :
          ranked_rows[i].symbol = ScoredSymbols(idx)[i]

\* the run leaves the loop only when every entry has been processed
LoopRunsToEnd == pc # "loop" => idx = Len(universe)

C9_ShortSeriesNeverScored ==
    /\ RankedAreScored
    /\ \A k \in 1..Len(fetched) :
          (fetched[k].kind = "frame" /\ fetched[k].df.n < 220) =>
              /\ k <= Len(debug_rows)
              /\ ReasonKind(debug_rows[k]) = "insufficient_history"
              /\ k \notin scored

\* a run met a Series of 219 bars and an empty Series
C9_Witness ==
    /\ Len(fetched) = 2
    /\ fetched[1].kind = "frame" /\ fetched[1].df.n = 219
    /\ fetched[2].kind = "frame" /\ fetched[2].df.n = 0
    /\ ReasonKind(debug_rows[2]) = "insufficient_history"

\* C10: when the cached fetch of an entry raises, the entry gets a
\* fetch_failed diagnostic row (with the exception text), it is not scored
\* or ranked, and the loop goes on: it is left only when every entry has
\* been processed.
C10_FetchFailureIsSkipped ==
    /\ RankedAreScored
    /\ LoopRunsToEnd
    /\ Len(debug_rows) = idx
    /\ \A k \in 1..Len(fetched) :
          fetched[k].kind \in {"raise", "write_failed"} =>
              /\ k <= Len(debug_rows)
              /\ debug_rows[k].reason = <<"fetch_failed", fetched[k].e>>
              /\ k \notin scored

\* the fetch of the first entry raised and the second entry was ranked
C10_Witness ==
    /\ pc = "done" /\ Len(fetched) = 2
    /\ fetched[1].kind = "raise"
    /\ ReasonKind(debug_rows[1]) = "fetch_failed"
    /\ ReasonKind(debug_rows[2]) = "ranked"

\* C11: once the universe and the provider session are there, the run comes
\* to its end and writes both files, whatever the universe (an empty one
\* included) and whatever the outcome of each entry (none ranked included):
\* a run that has left the loop has written the ranked file, holding a row
\* per ranked entry, and the diagnostic file, holding a row per entry.
C11_RunWritesBothOutputs ==
    pc # "loop" =>
        /\ pc = "done"
        /\ Len(out.ranked_csv) = Len(ranked_rows)
        /\ out.debug_csv = debug_rows
        /\ Len(out.debug_csv) = Len(universe)

\* the Series fetched for entry k has the 220 bars the filters need
LongEnough(k) == fetched[k].kind = "frame" /\ fetched[k].df.n >= 220

\* entry k has no ranked row: it was not scored, and the ranked rows are
\* those of the scored entries
NotRanked(k) == k \notin scored /\ RankedAreScored

\* C12 as stated: the liquidity check comes first: an entry with at least
\* 220 bars and a 20-bar mean traded value below the liquidity floor ends
\* with reason below_traded_value whatever its latest close, and is not
\* ranked.
C12_LiquidityCheckFirst ==
    \A k \in 1..Len(fetched) :
        (LongEnough(k) /\ fetched[k].df.tv20_cr < MIN_DV_CR) =>
            /\ ReasonKind(debug_rows[k]) = "below_traded_value"
            /\ NotRanked(k)

\* C12 amended: the price-floor check comes first: an entry with at least
\* 220 bars and a 20-bar mean traded value below the liquidity floor ends
\* with reason below_traded_value when its latest close is at or above the
\* price floor, and with reason below_price_floor when its latest close is
\* below the price floor; in both cases it is not ranked.
C12_PriceCheckFirst ==
    \A k \in 1..Len(fetched) :
        (LongEnough(k) /\ fetched[k].df.tv20_cr < MIN_DV_CR) =>
            /\ ReasonKind(debug_rows[k]) =
                  (IF fetched[k].df.close >= PRICE_FLOOR
                      THEN "below_traded_value" ELSE "below_price_floor")
            /\ NotRanked(k)

\* two illiquid entries, the first also below the price floor
C12_Witness ==
    /\ Len(fetched) = 2
    /\ LongEnough(1) /\ fetched[1].df.tv20_cr = 3 /\ fetched[1].df.close = 50
    /\ LongEnough(2) /\ fetched[2].df.tv20_cr = 3 /\ fetched[2].df.close = 100
    /\ ReasonKind(debug_rows[1]) = "below_price_floor"
    /\ ReasonKind(debug_rows[2]) = "below_traded_value"

Count(rows, row) == Cardinality({ i \in DOMAIN rows : rows[i] = row })

\* C14: the ranked file holds the ranked rows of the run, sorted by score
\* descending and, among equal scores, by box_span_pct ascending: of two
\* rows the one with the higher score comes first and, of two rows with
\* equal score, the one with the smaller box_span_pct; this in whatever
\* order the entries were processed.
C14_RankedOutputSorted ==
    pc = "done" =>
        /\ Len(out.ranked_csv) = Len(ranked_rows)
        /\ \A i \in DOMAIN ranked_rows :
              Count(out.ranked_csv, ranked_rows[i])
                  = Count(ranked_rows, ranked_rows[i])
        /\ \A i \in DOMAIN out.ranked_csv : \A j \in DOMAIN out.ranked_csv :
              LET a == out.ranked_csv[i]
                  b == out.ranked_csv[j]
              IN  /\ a.score > b.score => i < j
                  /\ (a.score = b.score /\ a.box_span_pct < b.box_span_pct)
                        => i < j

\* two entries of equal score were ranked, the wider box processed first
\* and written second
C14_Witness ==
    /\ pc = "done" /\ Len(ranked_rows) = 2
    /\ ranked_rows[1].score = ranked_rows[2].score
    /\ ranked_rows[1].box_span_pct > ranked_rows[2].box_span_pct
    /\ out.ranked_csv = << ranked_rows[2], ranked_rows[1] >>

\* get_hist_daily_cached was called for entry k (its symbol has a token)
FetchMade(k) == fetched[k].kind # "no_token"

\* C22: a pacing delay separates the per-symbol fetches: between any two
\* consecutive fetches of the loop, whatever the reason the earlier symbol
\* ended with, time.sleep(PAUSE_SECS) is performed.
C22_PauseBetweenFetches ==
    \A j \in 1..Len(fetched) : \A k \in 1..Len(fetched) :
        (/\ j < k
         /\ FetchMade(j) /\ FetchMade(k)
         /\ \A i \in (j + 1)..(k - 1) : ~FetchMade(i)) =>
            \E i \in j..(k - 1) : i \in pauses

\* C30: store_ohlc_data is attempted for exactly the entries whose fetched
\* Series has at least 220 bars, before the price and liquidity filters:
\* entries rejected as below_price_floor or below_traded_value are stored,
\* entries ending in not_found_in_instruments, fetch_failed or
\* insufficient_history never are.
C30_StoredIffLongEnough ==
    /\ stored \subseteq 1..Len(fetched)
    /\ \A k \in 1..Len(fetched) :
          /\ k \in stored <=> LongEnough(k)
          /\ ReasonKind(debug_rows[k]) \in
                {"below_price_floor", "below_traded_value", "ranked"}
                => k \in stored
          /\ ReasonKind(debug_rows[k]) \in
                {"not_found_in_instruments", "fetch_failed",
                 "insufficient_history"}
                => k \notin stored

\* a run stored an entry it then rejected for its price, and did not store
\* an entry without enough bars
C30_Witness ==
    /\ Len(fetched) = 2
    /\ ReasonKind(debug_rows[1]) = "below_price_floor" /\ 1 \in stored
    /\ ReasonKind(debug_rows[2]) = "insufficient_history" /\ 2 \notin stored

\* the filters of lines 127-152 let the Series through
PassesFilters(df) ==
    df.n >= 220 /\ df.close >= PRICE_FLOOR /\ df.tv20_cr >= MIN_DV_CR

\* writing the cache entry of entry k failed / upserting entry k into the
\* store failed
CacheWriteFailed(k) == fetched[k].kind = "write_failed"

StoreFailed(k) == k \in store_errors

\* C18: when writing the cache entry of a symbol or upserting it into the
\* store fails, the scan goes on and the symbol is filtered and scored from
\* the Series held in memory: it is not turned away as fetch_failed, and a
\* Series that passes the filters is scored and ranked.
C18_WriteFailureKeepsSymbol ==
    /\ LoopRunsToEnd
    /\ \A k \in 1..Len(fetched) :
          (CacheWriteFailed(k) \/ StoreFailed(k)) =>
              /\ ReasonKind(debug_rows[k]) # "fetch_failed"
              /\ PassesFilters(fetched[k].df) =>
                    (k \in scored /\ ReasonKind(debug_rows[k]) = "ranked")

----------------------------------------------------------------------------
(* Properties of the pure functions *)

ScoreDone == calc.fn = "compute_score" /\ calc.done

\* the two records differ in nothing but box_span_frac
DifferInBoxOnly(a, b) == b = [a EXCEPT !.box_span_frac = b.box_span_frac]

\* C15: of two metrics records that differ only in box_span_frac, the one
\* with the smaller box_span_frac has a score greater than or equal to the
\* other's.
C15_ScoreMonotonicInBox ==
    (ScoreDone /\ DifferInBoxOnly(calc.a, calc.b)) =>
        (calc.a.box_span_frac < calc.b.box_span_frac => calc.ra >= calc.rb)

\* a tighter box scored strictly higher, all else equal
C15_Witness ==
    /\ ScoreDone /\ DifferInBoxOnly(calc.a, calc.b)
    /\ calc.a.box_span_frac = 400 /\ calc.b.box_span_frac = 1200
    /\ calc.ra > calc.rb

\* C16: with the four ratio metrics fixed, the score with uptrend and
\* within_20pct_high both true is the score with both false plus
\* BONUS_UPTREND plus BONUS_NEARHIGH, and is strictly greater.
C16_BothBonusesAdded ==
    (/\ ScoreDone
     /\ calc.a.uptrend /\ calc.a.within_20pct_high
     /\ calc.b = [calc.a EXCEPT !.uptrend = FALSE,
                                !.within_20pct_high = FALSE]) =>
        /\ calc.ra = calc.rb + (BONUS_UPTREND + BONUS_NEARHIGH) * CapLcm
        /\ calc.ra > calc.rb

\* a record with both flags was scored next to its flagless twin
C16_Witness ==
    /\ ScoreDone
    /\ calc.a.uptrend /\ calc.a.within_20pct_high
    /\ ~calc.b.uptrend /\ ~calc.b.within_20pct_high
    /\ calc.a.box_span_frac = calc.b.box_span_frac
    /\ calc.rb > 0 /\ calc.ra > calc.rb

\* the raw metric values at or above 9, the sentinel convention
IsSentinel(x) == x >= 90000

C28_ScoreWithinBounds ==
    ScoreDone =>
        /\ 0 <= calc.ra
        /\ calc.ra <= (W_BOX + W_ATR + W_VOL + W_PIVOT
                         + BONUS_UPTREND + BONUS_NEARHIGH) * CapLcm
        /\ (/\ calc.a.box_span_frac >= BOX_CAP
            /\ calc.a.atr_ratio >= ATR_CAP
            /\ calc.a.vol_ratio >= VOL_CAP
            /\ calc.a.dist_to_pivot >= PIVOT_TOL
            /\ ~calc.a.uptrend /\ ~calc.a.within_20pct_high)
              => calc.ra = 0

\* the lower end of the range: every metric capped and no flag
C28_Witness ==
    /\ ScoreDone
    /\ calc.a.box_span_frac = 1500 /\ calc.a.atr_ratio = 12000
    /\ calc.a.vol_ratio = 99900 /\ calc.a.dist_to_pivot = 300
    /\ ~calc.a.uptrend /\ ~calc.a.within_20pct_high
    /\ calc.ra = 0

BoxSpanDone == calc.fn = "box_span_fraction" /\ calc.done

\* the window box_span_fraction looks at
BoxWindow == TailRows(calc.df, calc.look)

\* C17 as stated: on a window (of at least one bar) in which high = low
\* for every bar, box_span_fraction returns 0 for any non-zero lastClose.
C17_HighEqualsLowGivesZero ==
    (/\ BoxSpanDone
     /\ calc.last_close # 0
     /\ BoxWindow # <<>>
     /\ \A i \in DOMAIN BoxWindow : BoxWindow[i].high = BoxWindow[i].low) =>
        calc.r = Num(0)

\* C17 amended: on a non-empty window in which the high and the low of
\* every bar are one and the same price, box_span_fraction returns 0 for any
\* non-zero lastClose; when the bars have high = low at different prices it
\* returns (highest high - lowest low) / lastClose, which is not 0.
C17_FlatWindowGivesZero ==
    (BoxSpanDone /\ calc.last_close # 0) =>
        /\ (/\ BoxWindow # <<>>
            /\ \E p \in 1..MaxPrice : \A i \in DOMAIN BoxWindow :
                  BoxWindow[i].high = p /\ BoxWindow[i].low = p)
              => calc.r = Num(0)
        /\ (/\ BoxWindow # <<>>
            /\ \A i \in DOMAIN BoxWindow : BoxWindow[i].high = BoxWindow[i].low
            /\ \E i \in DOMAIN BoxWindow : \E j \in DOMAIN BoxWindow :
                  BoxWindow[i].high # BoxWindow[j].high)
              => (calc.r.kind = "num" /\ calc.r.v # 0)

\* a window of two bars, both flat at the same price
C17_Witness ==
    /\ BoxSpanDone /\ calc.last_close # 0
    /\ Len(BoxWindow) = 2
    /\ BoxWindow[1] = [high |-> 2, low |-> 2]
    /\ BoxWindow[2] = [high |-> 2, low |-> 2]
    /\ calc.r = Num(0)

\* the rows of a frame that carry date d
RowsDated(rows, d) == { i \in DOMAIN rows : rows[i].date = d }

\* the call merged a response holding a bar whose date the cache already had
FreshBarOnCachedDate(i) ==
    /\ Returned /\ last.resp.ok
    /\ i \in DOMAIN last.resp.rows
    /\ last.resp.rows[i].date \in DatesOf(last.cached)

\* C21: when a freshly fetched bar has the date of a bar already in the
\* cache, the merged Series, as persisted and as returned, holds exactly one
\* bar for that date, and that bar carries the freshly fetched values.
C21_FreshBarReplacesCached ==
    \A i \in 1..MaxResp :
        FreshBarOnCachedDate(i) =>
            LET fresh == last.resp.rows[i]
                entry == Entry(last.sym)
            IN  /\ Cardinality(RowsDated(entry, fresh.date)) = 1
                /\ \A j \in RowsDated(entry, fresh.date) : entry[j] = fresh
                /\ Cardinality(RowsDated(last.ret, fresh.date)) = 1
                /\ \A j \in RowsDated(last.ret, fresh.date) :
                      last.ret[j] = fresh

\* C27: after any sequence of get_hist_daily_cached calls, whatever the
\* provider answered, the persisted entry of every symbol has strictly
\* increasing, duplicate-free dates.
C27_PersistedSeriesOrdered ==
    \A f \in DOMAIN files : StrictlyIncreasing(files[f])

\* an entry of two bars was written from a merge that held a date twice or
\* out of order
C27_Witness ==
    /\ Returned /\ ~StrictlyIncreasing(last.ret)
    /\ Len(Entry(last.sym)) >= 2
    /\ StrictlyIncreasing(Entry(last.sym))

\* C20: cache operations on distinct symbols are independent: a call for one
\* symbol string leaves the cache entry of every other symbol string as it
\* was (and so cannot make a later result for the other depend on it).
C20_OtherEntriesUntouched ==
    [][\A s \in Symbols :
          (last'.outcome # "none" /\ s # last'.sym) => Entry(s)' = Entry(s)]_vars

----------------------------------------------------------------------------
(* Properties of concurrent calls *)

\* C19: with two get_hist_daily_cached calls for one symbol interleaved at
\* their read, request and write steps, the writes to the cache file are
\* serialized: every bar persisted before a step is persisted after it, so
\* no bar either call has written is lost and the entry is never truncated.
C19_ConcurrentWritesLoseNothing ==
    [][\A f \in DOMAIN files :
          /\ f \in DOMAIN files'
          /\ BarsOf(files[f]) \subseteq BarsOf(files'[f])
          /\ Len(files[f]) <= Len(files'[f])]_vars

UptrendDone == calc.fn = "is_uptrend" /\ calc.done

\* the mean of the 50 closes ending k bars before the latest bar, times 50
Mean50Back(k) == Rolling(CloseColumn(calc), 50, calc.n - k)

\* C23: is_uptrend returns true iff, at the latest bar, close > MA50 > MA200
\* and the MA50 of the latest bar exceeds the MA50 five bars prior, the bar
\* at position latest - 5.
C23_UptrendComparesFiveBarsBack ==
    (UptrendDone /\ calc.n >= 1) =>
        /\ calc.r.kind = "bool"
        /\ calc.r.v <=>
             /\ MeanGreater(Rolling(CloseColumn(calc), 1, calc.n), 1,
                            Mean50Back(0), 50)
             /\ MeanGreater(Mean50Back(0), 50,
                            Rolling(CloseColumn(calc), 200, calc.n), 200)
             /\ MeanGreater(Mean50Back(0), 50, Mean50Back(5), 50)

NearHighDone == calc.fn = "within_52w_high" /\ calc.done

C29_FullYearNearHigh ==
    (NearHighDone /\ calc.n >= 252 /\ calc.rest = calc.close
       /\ calc.first <= calc.close) => calc.r = Bool(TRUE)

RatiosDone == calc.fn = "ratios" /\ calc.done

\* a ratio that is a number at or above 9
SentinelRatio(x) == x.kind = "num" /\ IsSentinel(x.v)

\* a divisor that is zero or undefined
NoDivisor(x) == x.kind = "nan" \/ (x.kind = "num" /\ x.v = 0)

\* C24: in the metrics computed by the scan, every ratio whose divisor is
\* zero or undefined (box_span_frac over the latest close, dist_to_pivot over
\* pivot, atr_ratio over the ATR base, vol_ratio over the 50-bar mean volume)
\* is a sentinel value >= 9; nothing is raised and no ratio is infinite or
\* undefined.
C24_ZeroDivisorGivesSentinel ==
    RatiosDone =>
        /\ calc.close = 0 =>
             ~calc.r.raised /\ SentinelRatio(calc.r.box_span_frac)
        /\ Pivot(calc.box) = 0 =>
             ~calc.r.raised /\ SentinelRatio(calc.r.dist_to_pivot)
        /\ NoDivisor(calc.atr_base) =>
             ~calc.r.raised /\ SentinelRatio(calc.r.atr_ratio)
        /\ NoDivisor(calc.v50) =>
             ~calc.r.raised /\ SentinelRatio(calc.r.vol_ratio)

\* the two guarded ratios: where they are computed, a zero or undefined
\* ATR base or 50-bar mean volume gives the sentinel
C24_GuardedRatiosGiveSentinel ==
    (RatiosDone /\ ~calc.r.raised) =>
        /\ NoDivisor(calc.atr_base) => SentinelRatio(calc.r.atr_ratio)
        /\ NoDivisor(calc.v50) => SentinelRatio(calc.r.vol_ratio)

\* the last store_ohlc_data call stored, for the same symbol, the Series of
\* the call before it, which had taken effect
SameSeriesAgain == storing.last.repeat

\* C26: storing rows is an upsert keyed by (symbol, date): after any sequence
\* of store_ohlc_data calls the table holds at most one row per
\* (symbol, date), and storing the same Series for a symbol a second time
\* leaves the stored (symbol, date) rows and their values unchanged.
C26_StoreIsUpsert ==
    /\ \A r1 \in db.rows, r2 \in db.rows :
         (r1.symbol = r2.symbol /\ r1.date = r2.date) => r1 = r2
    /\ SameSeriesAgain => Stored(db.rows) = storing.last.before

\* a Series of two bars was stored twice for a symbol, both calls
\* committed; the rows were rewritten (new ids) and read the same
C26_Witness ==
    /\ SameSeriesAgain
    /\ storing.last.effect = "committed"
    /\ storing.last.ret = 2
    /\ db.seq = 4
    /\ Cardinality(db.rows) = 2
    /\ Stored(db.rows) = storing.last.before

====
